---- MODULE Spec2Model ----
(***************************************************************************)
(* Model of the ReScript Evangeliser pattern library and of the extension  *)
(* state that consumes it.                                                 *)
(*                                                                         *)
(*   extension/src/patterns/pattern-library.ts   registry, queries, engine *)
(*   extension/src/patterns/advanced-patterns.ts ADVANCED_PATTERNS (the    *)
(*        text of this file follows extension.ts in src/extension/src/     *)
(*        extension.ts, from line 539 on)                                  *)
(*   extension/src/extension.ts                  commands, learning state  *)
(*   extension/src/webview/transformation-panel.ts  TransformationPanel    *)
(*                                                                         *)
(* Representation.  A source text is a sequence of lines; every line is    *)
(* one of the statements of Statements (joined by "\n").  A regular        *)
(* expression literal is represented by what it matches on such texts:     *)
(* `within` is the set of lines inside which it finds a match, `spans` the *)
(* set of pairs <<a, b>> such that it finds a match that starts in a line  *)
(* a and ends in a later line b (whatever lines lie between), `empty`      *)
(* whether it matches the text without a line, "".  The tables             *)
(* were obtained by running the literal of the quoted source line on every *)
(* text of up to four lines.  A Pattern object is referred to by its       *)
(* position in PATTERN_LIBRARY, which stands for the object reference that *)
(* the JavaScript arrays hold.  A confidence c is held as 100 * c.         *)
(***************************************************************************)
EXTENDS Integers, Sequences, FiniteSets, TLC

\* Bounds of the model.
MaxLen == 2              \* lines in a text handed to the library
MaxTransformations == 4  \* successful transformCode runs that are followed
MaxTimers == 2           \* setTimeout callbacks that wait at the same time

\* The lines texts are made of.
Statements ==
  { "x ?? y; z?.w",
    "if (u !== null && u !== undefined) {}",
    "function add(a: T | null) { return a; }",
    "try { f(); } catch (e) { return null; }",
    "this.n = 1;" }

\* The texts an editor selection is drawn from; the first line of the last
\* but one is test/pattern-library.test.ts:74, on which no pattern matches.
Selections ==
  { <<>>,
    <<"x ?? y; z?.w">>,
    <<"if (u !== null && u !== undefined) {}">>,
    <<"function add(a: T | null) { return a; }">>,
    <<"try { f(); } catch (e) { return null; }">>,
    <<"x ?? y; z?.w", "if (u !== null && u !== undefined) {}">>,
    <<"try { f(); } catch (e) { return null; }",
      "if (u !== null && u !== undefined) {}">>,
    <<"function add(a: T | null) { return a; }",
      "function add(a: T | null) { return a; }">>,
    <<"console.log('hello');">>,
    <<"console.log('hello');", "if (u !== null && u !== undefined) {}">> }

TextsOver(lines) == UNION { [1..n -> lines] : n \in 0..MaxLen }

\* JavaScript values a caller can pass for `code`.  A string carries its
\* lines; an array carries the lines of its single element, if any.
StringValue(t) == [type |-> "string", text |-> t]

StringValues == { StringValue(t) : t \in TextsOver(Statements) }

NonStringValues ==
  { [type |-> "null", text |-> <<>>],
    [type |-> "undefined", text |-> <<>>],
    [type |-> "number", text |-> <<>>],       \* 42
    [type |-> "object", text |-> <<>>],       \* {}
    [type |-> "array", text |-> <<>>],        \* []
    [type |-> "array", text |-> <<"x ?? y; z?.w">>]  \* ["x ?? y; z?.w"]
  }

JsValues == StringValues \cup NonStringValues

\* JsToString of the ECMAScript specification, applied by RegExp.prototype.test
\* to its argument.
JsToString(v) ==
  CASE v.type = "string"    -> v.text
    [] v.type = "null"      -> <<"null">>
    [] v.type = "undefined" -> <<"undefined">>
    [] v.type = "number"    -> <<"42">>
    [] v.type = "object"    -> <<"[object Object]">>
    [] v.type = "array"     -> v.text

\* types.ts: PatternCategory and DifficultyLevel
PatternCategory ==
  { "null-safety", "async", "error-handling", "array-operations",
    "conditionals", "destructuring", "defaults", "functional", "templates",
    "arrow-functions", "variants", "modules", "type-safety", "immutability",
    "pattern-matching", "pipe-operator", "oop-to-fp", "classes-to-records",
    "inheritance-to-composition", "state-machines", "data-modeling" }

DifficultyLevel == { "beginner", "intermediate", "advanced" }

BASIC_PATTERNS ==
  <<
    \* pattern-library.ts:20  (jsPattern at line 24)
    [id |-> "null-check-basic", category |-> "null-safety", difficulty |-> "beginner", confidence |-> 90,
     jsPattern |-> [type |-> "RegExp", flags |-> {}, empty |-> FALSE, within |-> {"if (u !== null && u !== undefined) {}"}, spans |-> {}]],
    \* pattern-library.ts:60  (jsPattern at line 64)
    [id |-> "null-check-ternary", category |-> "null-safety", difficulty |-> "beginner", confidence |-> 85,
     jsPattern |-> [type |-> "RegExp", flags |-> {}, empty |-> FALSE, within |-> {"function add(a: T | null) { return a; }", "if (u !== null && u !== undefined) {}", "null", "try { f(); } catch (e) { return null; }", "undefined"}, spans |-> {}]],
    \* pattern-library.ts:84  (jsPattern at line 88)
    [id |-> "optional-chaining", category |-> "null-safety", difficulty |-> "intermediate", confidence |-> 95,
     jsPattern |-> [type |-> "RegExp", flags |-> {}, empty |-> FALSE, within |-> {"x ?? y; z?.w"}, spans |-> {}]],
    \* pattern-library.ts:109  (jsPattern at line 113)
    [id |-> "nullish-coalescing", category |-> "null-safety", difficulty |-> "beginner", confidence |-> 90,
     jsPattern |-> [type |-> "RegExp", flags |-> {}, empty |-> FALSE, within |-> {"x ?? y; z?.w"}, spans |-> {}]],
    \* pattern-library.ts:133  (jsPattern at line 137)
    [id |-> "guard-clause", category |-> "null-safety", difficulty |-> "beginner", confidence |-> 80,
     jsPattern |-> [type |-> "RegExp", flags |-> {}, empty |-> FALSE, within |-> {}, spans |-> {}]],
    \* pattern-library.ts:163  (jsPattern at line 167)
    [id |-> "undefined-check", category |-> "null-safety", difficulty |-> "beginner", confidence |-> 85,
     jsPattern |-> [type |-> "RegExp", flags |-> {}, empty |-> FALSE, within |-> {}, spans |-> {}]],
    \* pattern-library.ts:192  (jsPattern at line 196)
    [id |-> "logical-and-null", category |-> "null-safety", difficulty |-> "beginner", confidence |-> 70,
     jsPattern |-> [type |-> "RegExp", flags |-> {}, empty |-> FALSE, within |-> {}, spans |-> {}]],
    \* pattern-library.ts:216  (jsPattern at line 220)
    [id |-> "default-empty-object", category |-> "null-safety", difficulty |-> "intermediate", confidence |-> 75,
     jsPattern |-> [type |-> "RegExp", flags |-> {}, empty |-> FALSE, within |-> {}, spans |-> {}]],
    \* pattern-library.ts:243  (jsPattern at line 247)
    [id |-> "async-await-basic", category |-> "async", difficulty |-> "intermediate", confidence |-> 95,
     jsPattern |-> [type |-> "RegExp", flags |-> {}, empty |-> FALSE, within |-> {}, spans |-> {}]],
    \* pattern-library.ts:273  (jsPattern at line 277)
    [id |-> "promise-then", category |-> "async", difficulty |-> "beginner", confidence |-> 90,
     jsPattern |-> [type |-> "RegExp", flags |-> {}, empty |-> FALSE, within |-> {}, spans |-> {}]],
    \* pattern-library.ts:304  (jsPattern at line 308)
    [id |-> "promise-all", category |-> "async", difficulty |-> "intermediate", confidence |-> 95,
     jsPattern |-> [type |-> "RegExp", flags |-> {}, empty |-> FALSE, within |-> {}, spans |-> {}]],
    \* pattern-library.ts:334  (jsPattern at line 338)
    [id |-> "try-catch-async", category |-> "async", difficulty |-> "intermediate", confidence |-> 85,
     jsPattern |-> [type |-> "RegExp", flags |-> {"s"}, empty |-> FALSE, within |-> {}, spans |-> {}]],
    \* pattern-library.ts:372  (jsPattern at line 376)
    [id |-> "promise-catch", category |-> "async", difficulty |-> "beginner", confidence |-> 90,
     jsPattern |-> [type |-> "RegExp", flags |-> {}, empty |-> FALSE, within |-> {}, spans |-> {}]],
    \* pattern-library.ts:403  (jsPattern at line 407)
    [id |-> "promise-race", category |-> "async", difficulty |-> "advanced", confidence |-> 95,
     jsPattern |-> [type |-> "RegExp", flags |-> {}, empty |-> FALSE, within |-> {}, spans |-> {}]],
    \* pattern-library.ts:436  (jsPattern at line 440)
    [id |-> "try-catch-basic", category |-> "error-handling", difficulty |-> "beginner", confidence |-> 90,
     jsPattern |-> [type |-> "RegExp", flags |-> {"s"}, empty |-> FALSE, within |-> {"try { f(); } catch (e) { return null; }"}, spans |-> {}]],
    \* pattern-library.ts:469  (jsPattern at line 473)
    [id |-> "error-result-type", category |-> "error-handling", difficulty |-> "intermediate", confidence |-> 70,
     jsPattern |-> [type |-> "RegExp", flags |-> {}, empty |-> FALSE, within |-> {}, spans |-> {}]],
    \* pattern-library.ts:504  (jsPattern at line 508)
    [id |-> "throw-error", category |-> "error-handling", difficulty |-> "beginner", confidence |-> 95,
     jsPattern |-> [type |-> "RegExp", flags |-> {}, empty |-> FALSE, within |-> {}, spans |-> {}]],
    \* pattern-library.ts:534  (jsPattern at line 538)
    [id |-> "error-first-callback", category |-> "error-handling", difficulty |-> "intermediate", confidence |-> 80,
     jsPattern |-> [type |-> "RegExp", flags |-> {}, empty |-> FALSE, within |-> {}, spans |-> {}]],
    \* pattern-library.ts:569  (jsPattern at line 573)
    [id |-> "optional-error", category |-> "error-handling", difficulty |-> "intermediate", confidence |-> 60,
     jsPattern |-> [type |-> "RegExp", flags |-> {}, empty |-> FALSE, within |-> {}, spans |-> {<<"try { f(); } catch (e) { return null; }", "try { f(); } catch (e) { return null; }">>}]],
    \* pattern-library.ts:608  (jsPattern at line 612)
    [id |-> "array-map", category |-> "array-operations", difficulty |-> "beginner", confidence |-> 95,
     jsPattern |-> [type |-> "RegExp", flags |-> {}, empty |-> FALSE, within |-> {}, spans |-> {}]],
    \* pattern-library.ts:632  (jsPattern at line 636)
    [id |-> "array-filter", category |-> "array-operations", difficulty |-> "beginner", confidence |-> 95,
     jsPattern |-> [type |-> "RegExp", flags |-> {}, empty |-> FALSE, within |-> {}, spans |-> {}]],
    \* pattern-library.ts:656  (jsPattern at line 660)
    [id |-> "array-reduce", category |-> "array-operations", difficulty |-> "intermediate", confidence |-> 90,
     jsPattern |-> [type |-> "RegExp", flags |-> {}, empty |-> FALSE, within |-> {}, spans |-> {}]],
    \* pattern-library.ts:680  (jsPattern at line 684)
    [id |-> "array-find", category |-> "array-operations", difficulty |-> "beginner", confidence |-> 90,
     jsPattern |-> [type |-> "RegExp", flags |-> {}, empty |-> FALSE, within |-> {}, spans |-> {}]],
    \* pattern-library.ts:704  (jsPattern at line 708)
    [id |-> "array-some", category |-> "array-operations", difficulty |-> "beginner", confidence |-> 90,
     jsPattern |-> [type |-> "RegExp", flags |-> {}, empty |-> FALSE, within |-> {}, spans |-> {}]],
    \* pattern-library.ts:728  (jsPattern at line 732)
    [id |-> "array-every", category |-> "array-operations", difficulty |-> "beginner", confidence |-> 90,
     jsPattern |-> [type |-> "RegExp", flags |-> {}, empty |-> FALSE, within |-> {}, spans |-> {}]],
    \* pattern-library.ts:752  (jsPattern at line 756)
    [id |-> "array-flatmap", category |-> "array-operations", difficulty |-> "intermediate", confidence |-> 90,
     jsPattern |-> [type |-> "RegExp", flags |-> {}, empty |-> FALSE, within |-> {}, spans |-> {}]],
    \* pattern-library.ts:776  (jsPattern at line 780)
    [id |-> "for-loop-to-map", category |-> "array-operations", difficulty |-> "beginner", confidence |-> 70,
     jsPattern |-> [type |-> "RegExp", flags |-> {}, empty |-> FALSE, within |-> {}, spans |-> {}]]
  >>

ADVANCED_PATTERNS ==
  <<
    \* extension.ts:551  (jsPattern at line 555)
    [id |-> "ternary-basic", category |-> "conditionals", difficulty |-> "beginner", confidence |-> 85,
     jsPattern |-> [type |-> "RegExp", flags |-> {}, empty |-> FALSE, within |-> {}, spans |-> {<<"x ?? y; z?.w", "function add(a: T | null) { return a; }">>}]],
    \* extension.ts:575  (jsPattern at line 579)
    [id |-> "switch-statement", category |-> "conditionals", difficulty |-> "intermediate", confidence |-> 90,
     jsPattern |-> [type |-> "RegExp", flags |-> {}, empty |-> FALSE, within |-> {}, spans |-> {}]],
    \* extension.ts:610  (jsPattern at line 614)
    [id |-> "if-else-chain", category |-> "conditionals", difficulty |-> "beginner", confidence |-> 80,
     jsPattern |-> [type |-> "RegExp", flags |-> {}, empty |-> FALSE, within |-> {}, spans |-> {}]],
    \* extension.ts:646  (jsPattern at line 650)
    [id |-> "early-return", category |-> "conditionals", difficulty |-> "intermediate", confidence |-> 75,
     jsPattern |-> [type |-> "RegExp", flags |-> {}, empty |-> FALSE, within |-> {}, spans |-> {}]],
    \* extension.ts:680  (jsPattern at line 684)
    [id |-> "logical-or-default", category |-> "conditionals", difficulty |-> "beginner", confidence |-> 70,
     jsPattern |-> [type |-> "RegExp", flags |-> {}, empty |-> FALSE, within |-> {}, spans |-> {}]],
    \* extension.ts:707  (jsPattern at line 711)
    [id |-> "pure-function", category |-> "functional", difficulty |-> "intermediate", confidence |-> 60,
     jsPattern |-> [type |-> "function", flags |-> {}, empty |-> FALSE, within |-> {}, spans |-> {}]],
    \* extension.ts:737  (jsPattern at line 741)
    [id |-> "higher-order-function", category |-> "functional", difficulty |-> "intermediate", confidence |-> 75,
     jsPattern |-> [type |-> "RegExp", flags |-> {}, empty |-> FALSE, within |-> {}, spans |-> {}]],
    \* extension.ts:763  (jsPattern at line 767)
    [id |-> "curry-function", category |-> "functional", difficulty |-> "advanced", confidence |-> 80,
     jsPattern |-> [type |-> "RegExp", flags |-> {}, empty |-> FALSE, within |-> {}, spans |-> {}]],
    \* extension.ts:789  (jsPattern at line 793)
    [id |-> "compose-functions", category |-> "functional", difficulty |-> "advanced", confidence |-> 70,
     jsPattern |-> [type |-> "RegExp", flags |-> {}, empty |-> FALSE, within |-> {}, spans |-> {}]],
    \* extension.ts:818  (jsPattern at line 822)
    [id |-> "immutable-data", category |-> "functional", difficulty |-> "intermediate", confidence |-> 60,
     jsPattern |-> [type |-> "RegExp", flags |-> {}, empty |-> FALSE, within |-> {}, spans |-> {}]],
    \* extension.ts:848  (jsPattern at line 852)
    [id |-> "recursion-pattern", category |-> "functional", difficulty |-> "advanced", confidence |-> 80,
     jsPattern |-> [type |-> "RegExp", flags |-> {}, empty |-> FALSE, within |-> {}, spans |-> {<<"function add(a: T | null) { return a; }", "function add(a: T | null) { return a; }">>}]],
    \* extension.ts:883  (jsPattern at line 887)
    [id |-> "union-type-simulation", category |-> "variants", difficulty |-> "intermediate", confidence |-> 70,
     jsPattern |-> [type |-> "RegExp", flags |-> {}, empty |-> FALSE, within |-> {}, spans |-> {}]],
    \* extension.ts:913  (jsPattern at line 917)
    [id |-> "enum-pattern", category |-> "variants", difficulty |-> "beginner", confidence |-> 60,
     jsPattern |-> [type |-> "RegExp", flags |-> {}, empty |-> FALSE, within |-> {}, spans |-> {}]],
    \* extension.ts:944  (jsPattern at line 948)
    [id |-> "state-machine", category |-> "state-machines", difficulty |-> "advanced", confidence |-> 50,
     jsPattern |-> [type |-> "RegExp", flags |-> {}, empty |-> FALSE, within |-> {}, spans |-> {}]],
    \* extension.ts:983  (jsPattern at line 987)
    [id |-> "option-type-pattern", category |-> "type-safety", difficulty |-> "intermediate", confidence |-> 60,
     jsPattern |-> [type |-> "function", flags |-> {}, empty |-> FALSE, within |-> {}, spans |-> {}]],
    \* extension.ts:1011  (jsPattern at line 1015)
    [id |-> "type-guard", category |-> "type-safety", difficulty |-> "intermediate", confidence |-> 85,
     jsPattern |-> [type |-> "RegExp", flags |-> {}, empty |-> FALSE, within |-> {}, spans |-> {}]],
    \* extension.ts:1045  (jsPattern at line 1049)
    [id |-> "object-destructuring", category |-> "destructuring", difficulty |-> "beginner", confidence |-> 90,
     jsPattern |-> [type |-> "RegExp", flags |-> {}, empty |-> FALSE, within |-> {}, spans |-> {}]],
    \* extension.ts:1069  (jsPattern at line 1073)
    [id |-> "array-destructuring", category |-> "destructuring", difficulty |-> "beginner", confidence |-> 90,
     jsPattern |-> [type |-> "RegExp", flags |-> {}, empty |-> FALSE, within |-> {}, spans |-> {}]],
    \* extension.ts:1093  (jsPattern at line 1097)
    [id |-> "rest-parameters", category |-> "destructuring", difficulty |-> "intermediate", confidence |-> 80,
     jsPattern |-> [type |-> "RegExp", flags |-> {}, empty |-> FALSE, within |-> {}, spans |-> {}]],
    \* extension.ts:1123  (jsPattern at line 1127)
    [id |-> "nested-destructuring", category |-> "destructuring", difficulty |-> "intermediate", confidence |-> 70,
     jsPattern |-> [type |-> "RegExp", flags |-> {}, empty |-> FALSE, within |-> {}, spans |-> {}]],
    \* extension.ts:1150  (jsPattern at line 1154)
    [id |-> "es6-import", category |-> "modules", difficulty |-> "beginner", confidence |-> 95,
     jsPattern |-> [type |-> "RegExp", flags |-> {}, empty |-> FALSE, within |-> {}, spans |-> {}]],
    \* extension.ts:1176  (jsPattern at line 1180)
    [id |-> "es6-export", category |-> "modules", difficulty |-> "beginner", confidence |-> 95,
     jsPattern |-> [type |-> "RegExp", flags |-> {}, empty |-> FALSE, within |-> {}, spans |-> {}]],
    \* extension.ts:1201  (jsPattern at line 1205)
    [id |-> "namespace-pattern", category |-> "modules", difficulty |-> "intermediate", confidence |-> 50,
     jsPattern |-> [type |-> "RegExp", flags |-> {}, empty |-> FALSE, within |-> {}, spans |-> {}]],
    \* extension.ts:1234  (jsPattern at line 1238)
    [id |-> "template-literals", category |-> "templates", difficulty |-> "beginner", confidence |-> 95,
     jsPattern |-> [type |-> "RegExp", flags |-> {}, empty |-> FALSE, within |-> {}, spans |-> {}]],
    \* extension.ts:1258  (jsPattern at line 1262)
    [id |-> "string-concatenation", category |-> "templates", difficulty |-> "beginner", confidence |-> 80,
     jsPattern |-> [type |-> "RegExp", flags |-> {}, empty |-> FALSE, within |-> {}, spans |-> {}]]
  >>

\* Variant: the basic patterns spread into the library a second time.
PATTERN_LIBRARY_BasicTwice ==
  BASIC_PATTERNS \o ADVANCED_PATTERNS \o BASIC_PATTERNS

\* Variant: the confidences are read as per cent.
PATTERN_LIBRARY_PerCent ==
  [i \in DOMAIN (BASIC_PATTERNS \o ADVANCED_PATTERNS) |->
     [(BASIC_PATTERNS \o ADVANCED_PATTERNS)[i] EXCEPT !.confidence = @ * 100]]

PATTERN_LIBRARY == BASIC_PATTERNS \o ADVANCED_PATTERNS

PatternRefs == 1..Len(PATTERN_LIBRARY)

PatternIds == { PATTERN_LIBRARY[i].id : i \in PatternRefs }

\* The relatedPatterns field of every pattern, in registry order (the line
\* of the field is quoted; from the 28th on the lines are those of
\* extension.ts).
relatedPatterns ==
  <<
    <<"null-check-ternary", "optional-chaining">>,  \* 42
    <<"null-check-basic", "default-params">>,  \* 77
    <<"null-check-basic">>,  \* 102
    <<"default-params">>,  \* 126
    <<"null-check-basic">>,  \* 156
    <<"null-check-basic">>,  \* 185
    <<"null-check-basic">>,  \* 209
    <<"nullish-coalescing">>,  \* 233
    <<"promise-then", "try-catch-async">>,  \* 266
    <<"async-await-basic">>,  \* 297
    <<"async-await-basic">>,  \* 327
    <<"error-result-type">>,  \* 365
    <<"try-catch-async">>,  \* 396
    <<"promise-all">>,  \* 426
    <<"error-result-type">>,  \* 462
    <<"try-catch-basic">>,  \* 497
    <<"error-result-type">>,  \* 527
    <<"error-result-type">>,  \* 562
    <<"error-result-type", "null-check-basic">>,  \* 598
    <<"array-filter", "array-reduce", "pipe-operator">>,  \* 625
    <<"array-map">>,  \* 649
    <<"array-map">>,  \* 673
    <<"null-check-basic">>,  \* 697
    <<"array-every">>,  \* 721
    <<"array-some">>,  \* 745
    <<"array-map">>,  \* 769
    <<"array-map">>,  \* 796
    <<"switch-statement">>,  \* 568
    <<"variant-types">>,  \* 603
    <<"switch-statement">>,  \* 639
    <<"guard-clause">>,  \* 673
    <<"nullish-coalescing">>,  \* 697
    <<"immutable-data">>,  \* 730
    <<"curry-function">>,  \* 756
    <<"higher-order-function">>,  \* 782
    <<"pipe-operator">>,  \* 811
    <<"pure-function">>,  \* 841
    <<"array-reduce">>,  \* 873
    <<"error-result-type">>,  \* 906
    <<"union-type-simulation">>,  \* 937
    <<"union-type-simulation">>,  \* 976
    <<"null-check-basic">>,  \* 1004
    <<"switch-statement">>,  \* 1035
    <<"array-destructuring">>,  \* 1062
    <<"object-destructuring">>,  \* 1086
    <<"array-reduce">>,  \* 1116
    <<"object-destructuring">>,  \* 1140
    <<"es6-export">>,  \* 1169
    <<"es6-import">>,  \* 1194
    <<"es6-export">>,  \* 1224
    <<"string-concatenation">>,  \* 1251
    <<"template-literals">>   \* 1277
  >>

\* Every id that some pattern names as related.
RelatedIds ==
  UNION { { relatedPatterns[i][k] : k \in DOMAIN relatedPatterns[i] } :
            i \in DOMAIN relatedPatterns }

\* The value `undefined` where a Pattern reference is expected.
Undefined == 0

-----------------------------------------------------------------------------
(* RegExp.prototype.test                                                   *)

\* Positions are counted in lines: position k lies after the k-th line.
Min(S) == CHOOSE x \in S : \A y \in S : x <= y

\* The lines i after position `from` at which a match of re starts.
MatchStarts(re, s, from) ==
  { i \in (from + 1)..Len(s) :
      \/ s[i] \in re.within
      \/ \E j \in (i + 1)..Len(s) : <<s[i], s[j]>> \in re.spans }

\* The position after the leftmost match that starts at line i.
MatchEnd(re, s, i) ==
  IF s[i] \in re.within THEN i
  ELSE Min({ j \in (i + 1)..Len(s) : <<s[i], s[j]>> \in re.spans })

\* Variant: every literal carries the g flag.
IsGlobalAlways(re) == TRUE

\* The g flag of a literal.
IsGlobal(re) == "g" \in re.flags

\* Variant: every expression is matched from its lastIndex on and moves it,
\* with or without the g flag.
RegExpTestFromLastIndex(re, lastIdx, v) ==
  LET s      == JsToString(v)
      starts == MatchStarts(re, s, lastIdx)
  IN  IF s = <<>>
      THEN [result |-> re.empty /\ lastIdx = 0, lastIndex |-> 0]
      ELSE IF starts = {}
      THEN [result |-> FALSE, lastIndex |-> 0]
      ELSE [result |-> TRUE, lastIndex |-> MatchEnd(re, s, Min(starts))]

\* RegExpBuiltinExec: a global expression starts at its lastIndex and moves
\* it past the match (or back to 0 on failure); any other expression starts
\* at 0 and leaves lastIndex alone.  In the text without a line the only
\* match there can be is the empty one at 0.
RegExpTest(re, lastIdx, v) ==
  LET s      == JsToString(v)
      from   == IF IsGlobal(re) THEN lastIdx ELSE 0
      starts == MatchStarts(re, s, from)
  IN  IF s = <<>>
      THEN [result |-> re.empty /\ from = 0,
            lastIndex |-> IF IsGlobal(re) THEN 0 ELSE lastIdx]
      ELSE IF starts = {}
      THEN [result |-> FALSE, lastIndex |-> IF IsGlobal(re) THEN 0 ELSE lastIdx]
      ELSE [result |-> TRUE,
            lastIndex |-> IF IsGlobal(re) THEN MatchEnd(re, s, Min(starts))
                          ELSE lastIdx]

-----------------------------------------------------------------------------
(* The two detectors written as functions (advanced-patterns.ts)           *)

\* extension.ts:713  /function\s+\w+\([^)]*\)\s*{[^}]*return\s+/
PureFunctionBodyRe ==
  [type |-> "RegExp", flags |-> {}, empty |-> FALSE,
   within |-> {"function add(a: T | null) { return a; }"}, spans |-> {}]

\* extension.ts:714  /\bthis\./
PureFunctionThisRe ==
  [type |-> "RegExp", flags |-> {}, empty |-> FALSE, within |-> {"this.n = 1;"}, spans |-> {}]

\* Variant: the detector only asks that the text has no "this.".
PureFunctionDetectorNoBody(v) ==
  [threw  |-> FALSE,
   result |-> ~RegExpTest(PureFunctionThisRe, 0, v).result]

\* extension.ts:711-715  both literals are evaluated anew on every call
PureFunctionDetector(v) ==
  [threw  |-> FALSE,
   result |-> /\ RegExpTest(PureFunctionBodyRe, 0, v).result
              /\ ~RegExpTest(PureFunctionThisRe, 0, v).result]

\* types.ts:66  a detector (code) => re.test(code) for a literal re, which
\* is evaluated anew on every call, as the two literals above are; re is
\* given by the tables of the jsPattern.  No pattern of PATTERN_LIBRARY has
\* such a detector.
LiteralTestDetector(re, v) ==
  [threw |-> FALSE, result |-> RegExpTest(re, 0, v).result]

\* The lines that contain "| undefined" and "| null".
LinesWithPipeUndefined == {}
LinesWithPipeNull == {"function add(a: T | null) { return a; }"}

\* Variant: the detector reads a property that only an editor selection
\* has, and throws on a bare string.
OptionTypeDetectorOfSelection(v) == [threw |-> TRUE, result |-> FALSE]

\* extension.ts:987  (code) => code.includes('| undefined') || code.includes('| null')
\* A string has String.prototype.includes; an array has
\* Array.prototype.includes, which compares whole elements; null, undefined,
\* a number and a plain object have no callable `includes`: TypeError.
OptionTypeDetector(v) ==
  CASE v.type = "string" ->
         [threw  |-> FALSE,
          result |-> \E i \in 1..Len(v.text) :
                        v.text[i] \in LinesWithPipeUndefined \cup LinesWithPipeNull]
    [] v.type = "array" ->
         [threw |-> FALSE, result |-> FALSE]
    [] OTHER ->
         [threw |-> TRUE, result |-> FALSE]

CallDetector(p, v) ==
  CASE p.id = "pure-function"       -> PureFunctionDetector(v)
    [] p.id = "option-type-pattern" -> OptionTypeDetector(v)
    [] OTHER                        -> LiteralTestDetector(p.jsPattern, v)

-----------------------------------------------------------------------------
(* pattern-library.ts: the queries                                         *)

\* Variant: the lookup compares the category with the id.
getPatternByIdWrongKey(id) ==
  LET hits == { i \in PatternRefs : PATTERN_LIBRARY[i].category = id }
  IN  IF hits = {} THEN Undefined ELSE Min(hits)

\* Variant: a lookup that falls back to the first pattern.
getPatternByIdOrFirst(id) ==
  LET hits == { i \in PatternRefs : PATTERN_LIBRARY[i].id = id }
  IN  IF hits = {} THEN 1 ELSE Min(hits)

\* pattern-library.ts:816  PATTERN_LIBRARY.find(p => p.id === id)
getPatternById(id) ==
  LET hits == { i \in PatternRefs : PATTERN_LIBRARY[i].id = id }
  IN  IF hits = {} THEN Undefined ELSE Min(hits)

\* Variant: a filter that hands the kept references back last to first.
FilterRefsReversed(keep) ==
  LET kept == SelectSeq([i \in PatternRefs |-> i], LAMBDA i : i \in keep)
  IN  [k \in 1..Len(kept) |-> kept[Len(kept) + 1 - k]]

\* Array.prototype.filter: the references that satisfy keep, in array order.
FilterRefs(keep) ==
  SelectSeq([i \in PatternRefs |-> i], LAMBDA i : i \in keep)

\* Variant: the filter keeps the patterns of every other category.
getPatternsByCategoryNegated(category) ==
  FilterRefs({ i \in PatternRefs : PATTERN_LIBRARY[i].category # category })

\* pattern-library.ts:823  PATTERN_LIBRARY.filter(p => p.category === category)
getPatternsByCategory(category) ==
  FilterRefs({ i \in PatternRefs : PATTERN_LIBRARY[i].category = category })

\* Variant: a level also selects the patterns of the levels below it.
getPatternsByDifficultyUpTo(difficulty) ==
  FilterRefs({ i \in PatternRefs :
                 \/ PATTERN_LIBRARY[i].difficulty = difficulty
                 \/ /\ difficulty = "advanced"
                    /\ PATTERN_LIBRARY[i].difficulty = "intermediate" })

\* pattern-library.ts:830  PATTERN_LIBRARY.filter(p => p.difficulty === difficulty)
getPatternsByDifficulty(difficulty) ==
  FilterRefs({ i \in PatternRefs : PATTERN_LIBRARY[i].difficulty = difficulty })

\* Variant: a bucket is set to 1 whenever a pattern falls into it.
IncrementReset(record, key) ==
  [k \in DOMAIN record \cup {key} |-> IF k = key THEN 1 ELSE record[k]]

\* pattern-library.ts:870, 871  record[key] = (record[key] || 0) + 1, on a
\* Record<string, number>; a key that is not there reads as undefined.
Increment(record, key) ==
  [k \in DOMAIN record \cup {key} |->
     IF k = key
     THEN (IF key \in DOMAIN record THEN record[key] ELSE 0) + 1
     ELSE record[k]]

\* pattern-library.ts:869-872  the loop over the patterns lo..hi, entered
\* in the state acc: the two records and the position `next` of the
\* iteration.  The lower half of the range is gone through before the upper
\* half is entered.
RECURSIVE StatsLoop(_, _, _)
StatsLoop(lo, hi, acc) ==
  IF lo = hi
  THEN [next         |-> acc.next + 1,
        byCategory   |-> Increment(acc.byCategory,
                                   PATTERN_LIBRARY[acc.next].category),
        byDifficulty |-> Increment(acc.byDifficulty,
                                   PATTERN_LIBRARY[acc.next].difficulty)]
  ELSE LET mid == (lo + hi) \div 2
           then(l) == IF l.next > mid THEN StatsLoop(mid + 1, hi, l) ELSE l
       IN  then(StatsLoop(lo, mid, acc))

\* pattern-library.ts:866-880  getPatternStats(); {} is the record without
\* a key.
getPatternStats ==
  LET counted(acc) ==
        [total        |-> Len(PATTERN_LIBRARY),
         byCategory   |-> acc.byCategory,
         byDifficulty |-> acc.byDifficulty]
  IN  counted(StatsLoop(1, Len(PATTERN_LIBRARY),
                        [next |-> 1, byCategory |-> <<>>, byDifficulty |-> <<>>]))

-----------------------------------------------------------------------------
(* pattern-library.ts:837-854  detectPatterns                              *)
(*                                                                         *)
(* The body of detectPatterns is written over the array `lib` that its loop *)
(* iterates; detectPatterns is that body over PATTERN_LIBRARY.  A Pattern   *)
(* object of lib is referred to by its position in lib.                     *)

\* Variant: the comparator (a, b) => a.confidence - b.confidence.
CompareConfidenceAscending(a, b) == a.confidence - b.confidence

\* pattern-library.ts:853  the comparator (a, b) => b.confidence - a.confidence
CompareConfidence(a, b) == b.confidence - a.confidence

\* Variant: an unstable sort, x goes in front of its equals.
RECURSIVE InsertSortedUnstable(_, _, _)
InsertSortedUnstable(lib, sorted, x) ==
  IF sorted = <<>> THEN <<x>>
  ELSE IF CompareConfidence(lib[Head(sorted)], lib[x]) < 0
       THEN <<Head(sorted)>> \o InsertSortedUnstable(lib, Tail(sorted), x)
       ELSE <<x>> \o sorted

\* Array.prototype.sort is stable (ECMAScript 2019): x goes behind every
\* element that the comparator does not place after it.
RECURSIVE InsertSorted(_, _, _)
InsertSorted(lib, sorted, x) ==
  IF sorted = <<>> THEN <<x>>
  ELSE IF CompareConfidence(lib[Head(sorted)], lib[x]) <= 0
       THEN <<Head(sorted)>> \o InsertSorted(lib, Tail(sorted), x)
       ELSE <<x>> \o sorted

\* Variant: the array is left as it was.
ArraySortOmitted(lib, a) == a

\* Array.prototype.sort with the comparator of line 853, on an array of
\* references to Pattern objects of lib.
RECURSIVE ArraySort(_, _)
ArraySort(lib, a) ==
  IF a = <<>> THEN <<>>
  ELSE InsertSorted(lib, ArraySort(lib, SubSeq(a, 1, Len(a) - 1)), a[Len(a)])

\* Variant: a match is pushed twice.
PushTwice(matches, ref) == Append(Append(matches, ref), ref)

\* pattern-library.ts:843, 847  matches.push(pattern)
Push(matches, ref) == Append(matches, ref)

\* Variant: the loop has no branch for detectors written as functions.
EvalDetectorRegExpOnly(p, v, lastIdx) ==
  IF p.jsPattern.type = "RegExp"
  THEN LET t == RegExpTest(p.jsPattern, lastIdx, v)
       IN  [threw |-> FALSE, result |-> t.result, lastIndex |-> t.lastIndex]
  ELSE [threw |-> FALSE, result |-> FALSE, lastIndex |-> lastIdx]

\* Variant: only the patterns of the difficulty level 'beginner' are tried.
EvalDetectorBeginnerOnly(p, v, lastIdx) ==
  IF p.difficulty # "beginner"
  THEN [threw |-> FALSE, result |-> FALSE, lastIndex |-> lastIdx]
  ELSE IF p.jsPattern.type = "RegExp"
  THEN LET t == RegExpTest(p.jsPattern, lastIdx, v)
       IN  [threw |-> FALSE, result |-> t.result, lastIndex |-> t.lastIndex]
  ELSE IF p.jsPattern.type = "function"
  THEN LET c == CallDetector(p, v)
       IN  [threw |-> c.threw, result |-> c.result, lastIndex |-> lastIdx]
  ELSE [threw |-> FALSE, result |-> FALSE, lastIndex |-> lastIdx]

\* Variant: a pattern with a function is pushed when the function says no.
EvalDetectorCallNegated(p, v, lastIdx) ==
  IF p.jsPattern.type = "RegExp"
  THEN LET t == RegExpTest(p.jsPattern, lastIdx, v)
       IN  [threw |-> FALSE, result |-> t.result, lastIndex |-> t.lastIndex]
  ELSE IF p.jsPattern.type = "function"
  THEN LET c == CallDetector(p, v)
       IN  [threw |-> c.threw, result |-> ~c.result, lastIndex |-> lastIdx]
  ELSE [threw |-> FALSE, result |-> FALSE, lastIndex |-> lastIdx]

\* pattern-library.ts:841-849  the body of the loop for the pattern p: which
\* branch is taken and what the detector says.
EvalDetector(p, v, lastIdx) ==
  IF p.jsPattern.type = "RegExp"
  THEN LET t == RegExpTest(p.jsPattern, lastIdx, v)
       IN  [threw |-> FALSE, result |-> t.result, lastIndex |-> t.lastIndex]
  ELSE IF p.jsPattern.type = "function"
  THEN LET c == CallDetector(p, v)
       IN  [threw |-> c.threw, result |-> c.result, lastIndex |-> lastIdx]
  ELSE [threw |-> FALSE, result |-> FALSE, lastIndex |-> lastIdx]

\* The loop over the patterns lo..hi of lib, entered with the regular
\* expressions in the state li: the patterns are taken in array order (the
\* lower half of the range, then the upper half), the matches are collected
\* in that order, and an exception of a detector leaves the loop.  `tried`
\* lists the patterns whose detector was invoked, in the order of the calls.
RECURSIVE Scan(_, _, _, _, _)
Scan(lib, lo, hi, v, li) ==
  IF lo = hi
  THEN LET one(r) ==
             [threw     |-> r.threw,
              tried     |-> IF lib[lo].jsPattern.type \in {"RegExp", "function"}
                            THEN <<lo>> ELSE <<>>,
              matches   |-> IF ~r.threw /\ r.result THEN Push(<<>>, lo) ELSE <<>>,
              lastIndex |-> IF r.threw THEN li ELSE [li EXCEPT ![lo] = r.lastIndex]]
       IN  one(EvalDetector(lib[lo], v, li[lo]))
  ELSE LET mid == (lo + hi) \div 2
           rest(l, r) ==
             [threw     |-> r.threw,
              tried     |-> l.tried \o r.tried,
              matches   |-> l.matches \o r.matches,
              lastIndex |-> r.lastIndex]
           then(l) ==
             IF l.threw THEN l
             ELSE rest(l, Scan(lib, mid + 1, hi, v, l.lastIndex))
       IN  then(Scan(lib, lo, mid, v, li))

\* Variant: the array that is sorted is the one the loop iterates.
SortReceiverIsLibrary == "PATTERN_LIBRARY"

\* pattern-library.ts:838, 853  the receiver of sort is `matches`, the array
\* created at the start of the call.
SortReceiver == "matches"

\* pattern-library.ts:837-854  the loop, then the sort.  The two arrays of
\* the call are the iterated one, whose elements are its positions 1, 2, ...
\* as long as nothing moves them, and `matches`; Array.prototype.sort sorts
\* its receiver in place and returns it.  An exception reaches the caller.
\* `registry` is where the elements of the iterated array are after the call.
detectPatternsIn(lib, v, li) ==
  LET sorted(r) ==
        [[PATTERN_LIBRARY |-> [i \in DOMAIN lib |-> i], matches |-> r.matches]
           EXCEPT ![SortReceiver] = ArraySort(lib, @)]
      returned(r, arrays) ==
        [kind |-> "return", value |-> arrays[SortReceiver], tried |-> r.tried,
         lastIndex |-> r.lastIndex, registry |-> arrays.PATTERN_LIBRARY]
      done(r) ==
        IF r.threw
        THEN [kind |-> "throw", value |-> <<>>, tried |-> r.tried,
              lastIndex |-> r.lastIndex,
              registry |-> [i \in DOMAIN lib |-> i]]
        ELSE returned(r, sorted(r))
  IN  done(Scan(lib, 1, Len(lib), v, li))

detectPatterns(v, li) == detectPatternsIn(PATTERN_LIBRARY, v, li)

-----------------------------------------------------------------------------
(* State                                                                   *)

VARIABLES
  registry,          \* the elements of the array PATTERN_LIBRARY, in its order
  lastIndex,         \* lastIndex of the RegExp object of every pattern
  call,              \* the last call of a library function: [op, arg]
  ret,               \* its outcome: [kind, value]
  repeated,          \* the last call repeated the detectPatterns call before it
  tried,             \* the patterns whose detector the last call invoked, in
                     \* the order of the invocations
  learningProgress,  \* extension.ts:21
  globalState,       \* context.globalState, key 'learningProgress'
  statusBar,         \* statusBarItem.text and tooltip, as numbers
  panel,             \* extension.ts:19 and the fields of TransformationPanel
  lastTransform,     \* code, patterns and pattern of the last transformCode
                     \* that got past the "no patterns" return
  documents,         \* the open text documents: languageId and text
  activeEditor,      \* vscode.window.activeTextEditor, as its document
  timers,            \* the callbacks handed to setTimeout, oldest first, each
                     \* as the document of the editor it captured
  analysis,          \* the patterns listed by the last analysis panel
  caller,            \* the handler that made the last call of detectPatterns
  interleaved,       \* that call followed a call of another handler on
                     \* another text
  command,           \* the last command of the extension and how it ended
  panelCall,         \* the last call of a method of the TransformationPanel:
                     \* the method and the fields before the call
  trail,             \* the calls of toggleView, nextPattern and
                     \* previousPattern since the last call of another
                     \* method, four at most: the method, and the view and
                     \* the index before the call
  subject,           \* the value on which registries are compared
  outcome            \* what detectPatterns makes of it over two registries

libVars == <<registry, lastIndex, call, ret, repeated, tried>>
panelVars == <<panelCall, trail>>
extVars == <<learningProgress, globalState, statusBar, panel, lastTransform,
             command, panelVars>>
regVars == <<subject, outcome>>
watchVars == <<documents, activeEditor, timers, analysis, caller, interleaved>>
vars    == <<registry, lastIndex, call, ret, repeated, tried, learningProgress,
             globalState, statusBar, panel, lastTransform, documents,
             activeEditor, timers, analysis, caller, interleaved, subject,
             outcome, command, panelCall, trail>>

None == [op |-> "none", arg |-> ""]

\* extension.ts:30-39  learningProgress when nothing was persisted;
\* dates are counted in transformations.
FreshProgress ==
  [patternsCompleted |-> {}, totalTransformations |-> 0, lastActive |-> 0]

\* transformation-panel.ts:16-21  a TransformationPanel that does not exist
\* yet (created = FALSE) has the field values its constructor will give it.
\* `open` says that the field `panel` refers to a webview, `webviews` counts
\* the webviews of this object that exist, and `html` is the page written
\* to a webview last.
NoHtml == [page |-> "none", pattern |-> Undefined, counter |-> <<>>]
NoPanel ==
  [created |-> FALSE, open |-> FALSE, webviews |-> 0, currentView |-> "RAW",
   currentPatterns |-> <<>>, currentPatternIndex |-> 0, currentCode |-> <<>>,
   html |-> NoHtml]

\* Variant: the count is that of the basic patterns alone.
getPatternCountBasic == Len(BASIC_PATTERNS)

\* pattern-library.ts:859, 877  getPatternCount(), getPatternStats().total
getPatternCount == Len(PATTERN_LIBRARY)

\* No comparison of registries was made for the subject.
NoRelabelling == [category |-> "keep", difficulty |-> "keep", name |-> "keep"]
NoOutcome ==
  [test |-> "none", relabelling |-> NoRelabelling,
   first  |-> [kind |-> "none", ids |-> <<>>],
   second |-> [kind |-> "none", ids |-> <<>>]]

\* The documents that are open, with the languageId of each, and the texts
\* an edit can give a document (a document is empty to begin with).
Documents == { "a.js", "b.ts", "notes.md" }
LanguageId ==
  [d \in Documents |->
     CASE d = "a.js" -> "javascript"
       [] d = "b.ts" -> "typescript"
       [] OTHER      -> "markdown"]
DocumentTexts ==
  [d \in Documents |->
     CASE d = "a.js" ->
            { <<>>,
              <<"x ?? y; z?.w">>,
              <<"try { f(); } catch (e) { return null; }",
                "if (u !== null && u !== undefined) {}">> }
       [] d = "b.ts" ->
            { <<>>,
              <<"try { f(); } catch (e) { return null; }",
                "if (u !== null && u !== undefined) {}">> }
       [] OTHER ->
            { <<>>, <<"x ?? y; z?.w">> }]
NoDocument == "none"

Init ==
  /\ registry = [i \in PatternRefs |-> i]
  /\ lastIndex = [i \in PatternRefs |-> 0]
  /\ call = None
  /\ ret = [kind |-> "none", value |-> <<>>]
  /\ repeated = FALSE
  /\ tried = <<>>
  /\ learningProgress = FreshProgress
  /\ globalState = [learningProgress |-> "unset"]
  /\ statusBar = [completed |-> 0, total |-> getPatternCount, detected |-> 0]
  /\ panel = NoPanel
  /\ lastTransform = [code |-> <<>>, patterns |-> <<>>, pattern |-> Undefined]
  /\ documents = [d \in Documents |-> [languageId |-> LanguageId[d], text |-> <<>>]]
  /\ activeEditor = NoDocument
  /\ timers = <<>>
  /\ analysis = <<>>
  /\ caller = "none"
  /\ interleaved = FALSE
  /\ subject = StringValue(<<>>)
  /\ outcome = NoOutcome
  /\ command = [name |-> "none", outcome |-> "none"]
  /\ panelCall = [op |-> "none", before |-> NoPanel]
  /\ trail = <<>>

-----------------------------------------------------------------------------
(* Calls of the library                                                    *)

DetectPatterns(v) ==
  \E r \in {detectPatterns(v, lastIndex)} :
  /\ call' = [op |-> "detectPatterns", arg |-> v]
  /\ ret' = [kind |-> r.kind, value |-> r.value]
  /\ lastIndex' = r.lastIndex
  /\ registry' = [k \in DOMAIN registry |-> registry[r.registry[k]]]
  /\ repeated' = (call = [op |-> "detectPatterns", arg |-> v])
  /\ tried' = r.tried
  /\ UNCHANGED <<extVars, watchVars, regVars>>

GetPatternById(id) ==
  /\ call' = [op |-> "getPatternById", arg |-> id]
  /\ ret' = [kind |-> "return", value |-> getPatternById(id)]
  /\ repeated' = FALSE
  /\ tried' = <<>>
  /\ UNCHANGED <<registry, lastIndex, extVars, watchVars, regVars>>

GetPatternsByCategory(category) ==
  /\ call' = [op |-> "getPatternsByCategory", arg |-> category]
  /\ ret' = [kind |-> "return", value |-> getPatternsByCategory(category)]
  /\ repeated' = FALSE
  /\ tried' = <<>>
  /\ UNCHANGED <<registry, lastIndex, extVars, watchVars, regVars>>

GetPatternsByDifficulty(difficulty) ==
  /\ call' = [op |-> "getPatternsByDifficulty", arg |-> difficulty]
  /\ ret' = [kind |-> "return", value |-> getPatternsByDifficulty(difficulty)]
  /\ repeated' = FALSE
  /\ tried' = <<>>
  /\ UNCHANGED <<registry, lastIndex, extVars, watchVars, regVars>>

GetPatternCount ==
  /\ call' = [op |-> "getPatternCount", arg |-> ""]
  /\ ret' = [kind |-> "return", value |-> getPatternCount]
  /\ repeated' = FALSE
  /\ tried' = <<>>
  /\ UNCHANGED <<registry, lastIndex, extVars, watchVars, regVars>>

GetPatternStats ==
  /\ call' = [op |-> "getPatternStats", arg |-> ""]
  /\ ret' = [kind |-> "return", value |-> getPatternStats]
  /\ repeated' = FALSE
  /\ tried' = <<>>
  /\ UNCHANGED <<registry, lastIndex, extVars, watchVars, regVars>>

\* Arguments of the queries: what the type allows (for an id: the ids of the
\* patterns, the ids they name as related, and the id of
\* test/pattern-library.test.ts:23) and one value it does not.
IdArgs == PatternIds \cup RelatedIds \cup {"non-existent"}
CategoryArgs == PatternCategory \cup {"not-a-category"}
DifficultyArgs == DifficultyLevel \cup {"expert"}

Next ==
  \/ \E v \in JsValues : DetectPatterns(v)
  \/ \E id \in IdArgs : GetPatternById(id)
  \/ \E c \in CategoryArgs : GetPatternsByCategory(c)
  \/ \E d \in DifficultyArgs : GetPatternsByDifficulty(d)
  \/ GetPatternCount
  \/ GetPatternStats

Spec == Init /\ [][Next]_vars

-----------------------------------------------------------------------------
(* extension.ts and transformation-panel.ts                                *)

\* transformation-panel.ts:521-535  getHeader: the counter "Pattern
\* current/total", left out when the list is empty.
getHeader(p) ==
  IF Len(p.currentPatterns) > 0
  THEN <<p.currentPatternIndex + 1, Len(p.currentPatterns)>>
  ELSE <<>>

\* transformation-panel.ts:129-147  updateContent: nothing without a
\* webview; else the page of the current view for
\* currentPatterns[currentPatternIndex].  The RAW, FOLDED and GLYPHED pages
\* (156, 246, 375) are the "no pattern" page, which has no header, when
\* that is undefined; the WYSIWYG page (452) shows no pattern at all.
updateContent(p) ==
  LET pattern == IF p.currentPatternIndex + 1 \in DOMAIN p.currentPatterns
                 THEN p.currentPatterns[p.currentPatternIndex + 1]
                 ELSE Undefined
  IN  IF ~p.open THEN p
      ELSE IF p.currentView = "WYSIWYG"
      THEN [p EXCEPT !.html = [page |-> "WYSIWYG", pattern |-> Undefined,
                               counter |-> getHeader(p)]]
      ELSE IF pattern = Undefined
      THEN [p EXCEPT !.html = [page |-> "no-pattern", pattern |-> Undefined,
                               counter |-> <<>>]]
      ELSE [p EXCEPT !.html = [page |-> p.currentView, pattern |-> pattern,
                               counter |-> getHeader(p)]]

\* Variant: show() creates a webview on every call.
revealOrCreateAlwaysCreates(p) ==
  [p EXCEPT !.open = TRUE, !.webviews = @ + 1, !.html = NoHtml]

\* transformation-panel.ts:34-70  reveal the webview `panel` refers to, or
\* create one (it has no content yet) and refer to it.
revealOrCreate(p) ==
  IF p.open THEN p
  ELSE [p EXCEPT !.open = TRUE, !.webviews = @ + 1, !.html = NoHtml]

\* transformation-panel.ts:28-73  show(code, patterns); patterns is an array
\* here, which is truthy even when empty.
show(p, code, patterns) ==
  updateContent(revealOrCreate([p EXCEPT !.currentCode = code,
                                         !.currentPatterns = patterns]))

\* transformation-panel.ts:28-73  show(code): without the second argument
\* the list is kept (line 30).
showCode(p, code) ==
  updateContent(revealOrCreate([p EXCEPT !.currentCode = code]))

\* transformation-panel.ts:79  the views in the order of the cycle
views == <<"RAW", "FOLDED", "GLYPHED", "WYSIWYG">>

\* Array.prototype.indexOf, counting from 0; -1 when absent.
indexOf(a, x) ==
  IF \E i \in 1..Len(a) : a[i] = x
  THEN Min({ i \in 1..Len(a) : a[i] = x }) - 1
  ELSE -1

\* Variant: the cycle leaves out the last view.
toggleViewSkipsLast(p) ==
  updateContent([p EXCEPT !.currentView =
                   views[((indexOf(views, @) + 1) % (Len(views) - 1)) + 1]])

\* transformation-panel.ts:78-85  toggleView()
toggleView(p) ==
  updateContent([p EXCEPT !.currentView =
                   views[((indexOf(views, @) + 1) % Len(views)) + 1]])

\* Variant: nextPattern stops at the last pattern.
nextPatternClamped(p) ==
  IF Len(p.currentPatterns) = 0 THEN p
  ELSE updateContent([p EXCEPT !.currentPatternIndex =
                        IF @ + 1 < Len(p.currentPatterns) THEN @ + 1 ELSE @])

\* transformation-panel.ts:90-95  nextPattern()
nextPattern(p) ==
  IF Len(p.currentPatterns) = 0 THEN p
  ELSE updateContent([p EXCEPT !.currentPatternIndex =
                        (@ + 1) % Len(p.currentPatterns)])

\* transformation-panel.ts:100-107  previousPattern()
previousPattern(p) ==
  IF Len(p.currentPatterns) = 0 THEN p
  ELSE updateContent([p EXCEPT !.currentPatternIndex =
                        (@ - 1 + Len(p.currentPatterns)) % Len(p.currentPatterns)])

\* transformation-panel.ts:49-51, 123-127  dispose(): the webview `panel`
\* refers to, if any, is disposed of, and its onDidDispose handler clears
\* the reference.
dispose(p) ==
  IF ~p.open THEN p
  ELSE [p EXCEPT !.open = FALSE, !.webviews = @ - 1, !.html = NoHtml]

\* context.globalState.update serialises with JSON.stringify: a Set has no
\* enumerable property and is written as {}.
JsonOf(progress) == [progress EXCEPT !.patternsCompleted = {}]

\* extension.ts:514-520  updateStatusBar(patternCount)
updateStatusBar(progress, count) ==
  [completed |-> Cardinality(progress.patternsCompleted),
   total     |-> getPatternCount,
   detected  |-> count]

\* What the active editor offers the command: no editor, or an editor with
\* the selected text (empty when nothing is selected).
NoEditor == [active |-> FALSE, selection |-> <<>>]
Editors ==
  {NoEditor} \cup
  { [active |-> TRUE, selection |-> t] : t \in Selections }

\* Variant: every detected pattern counts as completed.
CompletesAll(patterns) ==
  { PATTERN_LIBRARY[patterns[i]].id : i \in DOMAIN patterns }

\* extension.ts:200-203  the ids that a transformation with these matches
\* adds to patternsCompleted: that of patterns[0].
Completes(patterns) == { PATTERN_LIBRARY[patterns[1]].id }

\* Variant: the command counts a transformation before it looks at the
\* editor.
TransformSelectionCountsFirst(editor) ==
  /\ learningProgress.totalTransformations < MaxTransformations
  /\ learningProgress' =
       [learningProgress EXCEPT !.totalTransformations = @ + 1]
  /\ command' = [name |-> "transformSelection",
                 outcome |-> IF editor.active THEN "No code selected"
                             ELSE "No active editor"]
  /\ UNCHANGED <<libVars, globalState, statusBar, panel, lastTransform,
                 panelVars, watchVars, regVars>>

\* extension.ts:97-113  command rescript-evangeliser.transformSelection
\* extension.ts:184-226  transformCode
\* `command` keeps the information message the command ends with, or
\* "transformed".
TransformSelection(editor) ==
  /\ learningProgress.totalTransformations < MaxTransformations
  /\ UNCHANGED <<watchVars, regVars>>
  /\ IF ~editor.active
     THEN /\ command' = [name |-> "transformSelection",
                         outcome |-> "No active editor"]
          /\ UNCHANGED <<libVars, learningProgress, globalState, statusBar,
                         panel, lastTransform, panelVars>>
     ELSE IF editor.selection = <<>>
     THEN /\ command' = [name |-> "transformSelection",
                         outcome |-> "No code selected"]
          /\ UNCHANGED <<libVars, learningProgress, globalState, statusBar,
                         panel, lastTransform, panelVars>>
     ELSE \E r \in {detectPatterns(StringValue(editor.selection), lastIndex)} :
          /\ lastIndex' = r.lastIndex
          /\ registry' = [k \in DOMAIN registry |-> registry[r.registry[k]]]
          /\ IF r.kind = "throw" \/ r.value = <<>>
             THEN /\ command' =
                       [name |-> "transformSelection",
                        outcome |-> IF r.kind = "throw" THEN "threw"
                                    ELSE "No ReScript patterns detected"]
                  /\ UNCHANGED <<learningProgress, globalState, statusBar,
                                 panel, lastTransform, panelVars>>
             ELSE \E progress \in
                    {[patternsCompleted |->
                        learningProgress.patternsCompleted
                          \cup Completes(r.value),
                      totalTransformations |->
                        learningProgress.totalTransformations + 1,
                      lastActive |->
                        learningProgress.totalTransformations + 1]} :
                  /\ learningProgress' = progress
                  /\ globalState' = [learningProgress |-> JsonOf(progress)]
                  /\ panel' = show([panel EXCEPT !.created = TRUE],
                                   editor.selection, r.value)
                  /\ panelCall' = [op |-> "show", before |-> panel]
                  /\ trail' = <<>>
                  /\ statusBar' = updateStatusBar(progress, 0)
                  /\ lastTransform' = [code |-> editor.selection,
                                       patterns |-> r.value,
                                       pattern |-> r.value[1]]
                  /\ command' = [name |-> "transformSelection",
                                 outcome |-> "transformed"]
          /\ call' = [op |-> "detectPatterns",
                      arg |-> StringValue(editor.selection)]
          /\ ret' = [kind |-> r.kind, value |-> r.value]
          /\ repeated' = (call = call')
          /\ tried' = r.tried

NextExt == \E editor \in Editors : TransformSelection(editor)

SpecExt == Init /\ [][NextExt]_vars

-----------------------------------------------------------------------------
(* extension.ts: the watchers and the command analyzeFile                  *)

\* extension.ts:505-509  isJavaScriptFile(document)
isJavaScriptFile(document) ==
  document.languageId \in
    { "javascript", "typescript", "javascriptreact", "typescriptreact" }

\* A handler `who` calls detectPatterns(code): the call, its outcome r and
\* what it leaves in the library.
CallsDetectPatterns(who, code, r) ==
  /\ call' = [op |-> "detectPatterns", arg |-> StringValue(code)]
  /\ ret' = [kind |-> r.kind, value |-> r.value]
  /\ repeated' = (call = call')
  /\ tried' = r.tried
  /\ lastIndex' = r.lastIndex
  /\ registry' = [k \in DOMAIN registry |-> registry[r.registry[k]]]
  /\ caller' = who
  /\ interleaved' = /\ call.op = "detectPatterns"
                    /\ caller # who
                    /\ call.arg # StringValue(code)

\* extension.ts:482-487  the listener of onDidChangeActiveTextEditor, called
\* with the editor that became active (undefined when none is).
ChangeActiveTextEditor(editor) ==
  /\ editor # activeEditor
  /\ activeEditor' = editor
  /\ IF editor # NoDocument /\ isJavaScriptFile(documents[editor])
     THEN \E r \in {detectPatterns(StringValue(documents[editor].text), lastIndex)} :
            /\ CallsDetectPatterns("onDidChangeActiveTextEditor",
                                   documents[editor].text, r)
            /\ statusBar' = IF r.kind = "return"
                            THEN updateStatusBar(learningProgress, Len(r.value))
                            ELSE statusBar
     ELSE UNCHANGED <<libVars, statusBar, caller, interleaved>>
  /\ UNCHANGED <<learningProgress, globalState, panel, lastTransform,
                 command, panelVars,
                 documents, timers, analysis, regVars>>

\* extension.ts:490-499  an edit of a document and the listener of
\* onDidChangeTextDocument: a callback is handed to setTimeout when the
\* document is the one of the active editor and a JavaScript file.
ChangeTextDocument(document, text) ==
  /\ Len(timers) < MaxTimers
  /\ text # documents[document].text
  /\ documents' = [documents EXCEPT ![document].text = text]
  /\ timers' = IF activeEditor = document /\ isJavaScriptFile(documents[document])
               THEN Append(timers, document)
               ELSE timers
  /\ UNCHANGED <<libVars, extVars, activeEditor, analysis, caller, interleaved,
                 regVars>>

\* extension.ts:494-497  the callback of the oldest timer runs: it reads the
\* text that the document of the captured editor has by now.
Timeout ==
  /\ timers # <<>>
  /\ timers' = Tail(timers)
  /\ \E r \in {detectPatterns(StringValue(documents[Head(timers)].text), lastIndex)} :
       /\ CallsDetectPatterns("setTimeout", documents[Head(timers)].text, r)
       /\ statusBar' = IF r.kind = "return"
                       THEN updateStatusBar(learningProgress, Len(r.value))
                       ELSE statusBar
  /\ UNCHANGED <<learningProgress, globalState, panel, lastTransform,
                 command, panelVars,
                 documents, activeEditor, analysis, regVars>>

\* extension.ts:229-239  command rescript-evangeliser.analyzeFile: the
\* patterns of the text of the active editor, listed in a panel of its own.
AnalyzeFile ==
  IF activeEditor = NoDocument
  THEN UNCHANGED vars
  ELSE /\ \E r \in {detectPatterns(StringValue(documents[activeEditor].text), lastIndex)} :
            /\ CallsDetectPatterns("analyzeFile", documents[activeEditor].text, r)
            /\ analysis' = IF r.kind = "return" THEN r.value ELSE analysis
       /\ UNCHANGED <<extVars, documents, activeEditor, timers, regVars>>

NextWatch ==
  \/ \E editor \in Documents \cup {NoDocument} : ChangeActiveTextEditor(editor)
  \/ \E document \in Documents : \E text \in DocumentTexts[document] :
       ChangeTextDocument(document, text)
  \/ Timeout
  \/ AnalyzeFile

SpecWatch == Init /\ [][NextWatch]_vars

-----------------------------------------------------------------------------
(* detectPatterns over registries other than PATTERN_LIBRARY               *)
(*                                                                         *)
(* types.ts:60-83 allows any array of Pattern objects as a registry.  The  *)
(* body of detectPatterns is applied to PATTERN_LIBRARY and to a second    *)
(* registry made from it, both with their regular expressions as created.  *)

\* What a second registry changes in every pattern: its category, its
\* difficulty and its name, the first field of the content ("keep" leaves
\* the field of a pattern as it is in PATTERN_LIBRARY; the name of a pattern
\* is not held in PATTERN_LIBRARY and is held in the second registry).
Relabellings ==
  { [category |-> "data-modeling", difficulty |-> "keep", name |-> "keep"],
    [category |-> "keep", difficulty |-> "advanced", name |-> "keep"],
    [category |-> "keep", difficulty |-> "beginner", name |-> "Renamed"],
    [category |-> "async", difficulty |-> "intermediate", name |-> "Renamed"] }

\* types.ts:60-83  the registry with the ids, detectors and confidences of
\* PATTERN_LIBRARY and the other fields as the relabelling says.
Relabelled(rl) ==
  [i \in PatternRefs |->
     [id         |-> PATTERN_LIBRARY[i].id,
      jsPattern  |-> PATTERN_LIBRARY[i].jsPattern,
      confidence |-> PATTERN_LIBRARY[i].confidence,
      category   |-> IF rl.category = "keep" THEN PATTERN_LIBRARY[i].category
                     ELSE rl.category,
      difficulty |-> IF rl.difficulty = "keep" THEN PATTERN_LIBRARY[i].difficulty
                     ELSE rl.difficulty,
      name       |-> rl.name]]

\* types.ts:66  the pattern with the detector (code) => re.test(code) in the
\* place of the regular expression re of p.
FunctionTwin(p) ==
  [p EXCEPT !.id = p.id \o "-fn", !.jsPattern.type = "function"]

\* PATTERN_LIBRARY followed by the function twins of its patterns that have
\* a regular expression.
WithFunctionTwins ==
  LET twins == SelectSeq(PATTERN_LIBRARY, LAMBDA p : p.jsPattern.type = "RegExp")
  IN  PATTERN_LIBRARY \o [k \in DOMAIN twins |-> FunctionTwin(twins[k])]

\* The outcome of a call as the ids of the patterns returned.
IdsOf(lib, r) ==
  [kind |-> r.kind, ids |-> [k \in DOMAIN r.value |-> lib[r.value[k]].id]]

\* detectPatterns(subject) over lib, the regular expressions of lib being as
\* created.
DetectAfresh(lib) ==
  IdsOf(lib, detectPatternsIn(lib, subject, [i \in DOMAIN lib |-> 0]))

ChooseSubject(v) ==
  /\ v # subject
  /\ subject' = v
  /\ outcome' = NoOutcome
  /\ UNCHANGED <<libVars, extVars, watchVars>>

DetectRelabelled(rl) ==
  /\ outcome' = [test |-> "relabelled", relabelling |-> rl,
                 first  |-> DetectAfresh(PATTERN_LIBRARY),
                 second |-> DetectAfresh(Relabelled(rl))]
  /\ UNCHANGED <<libVars, extVars, watchVars, subject>>

DetectWithFunctionTwins ==
  /\ outcome' = [test |-> "twins", relabelling |-> NoRelabelling,
                 first  |-> DetectAfresh(PATTERN_LIBRARY),
                 second |-> DetectAfresh(WithFunctionTwins)]
  /\ UNCHANGED <<libVars, extVars, watchVars, subject>>

NextRegistries ==
  \/ \E v \in JsValues : ChooseSubject(v)
  \/ \E rl \in Relabellings : DetectRelabelled(rl)
  \/ DetectWithFunctionTwins

SpecRegistries == Init /\ [][NextRegistries]_vars

-----------------------------------------------------------------------------
(* transformation-panel.ts: the methods of a TransformationPanel           *)

\* The texts the extension shows.  transformCode (extension.ts:188, 213)
\* passes a text together with the non-empty list detectPatterns made of
\* it; showTransformationPanel (extension.ts:119-126) passes the text of the
\* document, or '' without an editor, and no list.
DetectedTexts ==
  { <<"x ?? y; z?.w">>,
    <<"try { f(); } catch (e) { return null; }",
      "if (u !== null && u !== undefined) {}">> }
DocumentCodes == { <<>>, <<"x ?? y; z?.w">> }
Detected ==
  [t \in DetectedTexts |->
     detectPatterns(StringValue(t), [i \in PatternRefs |-> 0]).value]

\* The longest trail kept.
TrailLen == 4

\* A method `op` was called on the TransformationPanel and left it as
\* `after`.
PanelCalled(op, after) ==
  /\ panel' = after
  /\ panelCall' = [op |-> op, before |-> panel]
  /\ trail' =
       IF op \in {"toggleView", "nextPattern", "previousPattern"}
       THEN LET t == Append(trail, [op    |-> op,
                                    view  |-> panel.currentView,
                                    index |-> panel.currentPatternIndex])
            IN  IF Len(t) > TrailLen THEN Tail(t) ELSE t
       ELSE <<>>
  /\ UNCHANGED <<libVars, learningProgress, globalState, statusBar,
                 lastTransform, command, watchVars, regVars>>

\* extension.ts:209-213  new TransformationPanel if there is none, then
\* show(code, patterns)
ShowPatterns(code) ==
  /\ code \in DOMAIN Detected
  /\ PanelCalled("show",
                 show([panel EXCEPT !.created = TRUE], code, Detected[code]))

\* extension.ts:122-126  new TransformationPanel if there is none, then
\* show(code)
ShowCode(code) ==
  /\ code \in DocumentCodes
  /\ PanelCalled("show", showCode([panel EXCEPT !.created = TRUE], code))

\* extension.ts:147, transformation-panel.ts:56  toggleView() on the object
ToggleView ==
  /\ panel.created
  /\ PanelCalled("toggleView", toggleView(panel))

\* extension.ts:158, transformation-panel.ts:59
NextPattern ==
  /\ panel.created
  /\ PanelCalled("nextPattern", nextPattern(panel))

\* extension.ts:167, transformation-panel.ts:62
PreviousPattern ==
  /\ panel.created
  /\ PanelCalled("previousPattern", previousPattern(panel))

\* extension.ts:82-83  dispose() on the object
Dispose ==
  /\ panel.created
  /\ PanelCalled("dispose", dispose(panel))

\* transformation-panel.ts:49-51  the user closes the webview: onDidDispose
WebviewClosed ==
  /\ panel.open
  /\ PanelCalled("onDidDispose", dispose(panel))

NextPanel ==
  \/ \E code \in DetectedTexts : ShowPatterns(code)
  \/ \E code \in DocumentCodes : ShowCode(code)
  \/ ToggleView
  \/ NextPattern
  \/ PreviousPattern
  \/ Dispose
  \/ WebviewClosed

SpecPanel == Init /\ [][NextPanel]_vars

-----------------------------------------------------------------------------
(* Properties                                                              *)

Confidence(ref) == PATTERN_LIBRARY[ref].confidence

Range(f) == { f[i] : i \in DOMAIN f }

\* The last call was detectPatterns and it returned an array.
DetectReturned == call.op = "detectPatterns" /\ ret.kind = "return"

\* What the detector of a pattern says about a value, taken from the pattern
\* alone: the fresh regular expression, or the function.
DetectorThrows(ref, v) ==
  /\ PATTERN_LIBRARY[ref].jsPattern.type = "function"
  /\ CallDetector(PATTERN_LIBRARY[ref], v).threw

DetectorHolds(ref, v) ==
  IF PATTERN_LIBRARY[ref].jsPattern.type = "RegExp"
  THEN IF JsToString(v) = <<>>
       THEN PATTERN_LIBRARY[ref].jsPattern.empty
       ELSE MatchStarts(PATTERN_LIBRARY[ref].jsPattern, JsToString(v), 0) # {}
  ELSE /\ ~CallDetector(PATTERN_LIBRARY[ref], v).threw
       /\ CallDetector(PATTERN_LIBRARY[ref], v).result

\* The references of a set in registry order.
RECURSIVE InRegistryOrder(_)
InRegistryOrder(S) ==
  IF S = {} THEN <<>>
  ELSE LET m == CHOOSE x \in S : \A y \in S : x <= y
       IN  <<m>> \o InRegistryOrder(S \ {m})

\* ref is ranked before every other element of S: higher confidence, or the
\* same confidence and an earlier place in the registry.
RanksFirst(ref, S) ==
  /\ ref \in S
  /\ \A m \in S : \/ Confidence(m) < Confidence(ref)
                  \/ Confidence(m) = Confidence(ref) /\ ref <= m

\* C1: the array returned by detectPatterns is ordered by non-increasing
\* confidence: an element never has a lower confidence than a later one.
C1_SortedByConfidence ==
  DetectReturned =>
    \A i, j \in DOMAIN ret.value :
      i < j => Confidence(ret.value[i]) >= Confidence(ret.value[j])

\* A result of three or more matches with different confidences.
C1_Witness ==
  /\ DetectReturned
  /\ Len(ret.value) >= 3
  /\ Confidence(ret.value[1]) > Confidence(ret.value[Len(ret.value)])

\* C2: two matching patterns of identical confidence stand in the result of
\* detectPatterns in the order they have in PATTERN_LIBRARY.
C2_StableTies ==
  DetectReturned =>
    \A i, j \in DOMAIN ret.value :
      (i < j /\ Confidence(ret.value[i]) = Confidence(ret.value[j]))
        => ret.value[i] < ret.value[j]

\* A result with a tie behind an element of higher confidence.
C2_Witness ==
  /\ DetectReturned
  /\ \E i, j \in DOMAIN ret.value :
       /\ 1 < i /\ i < j
       /\ Confidence(ret.value[i]) = Confidence(ret.value[j])

\* C3: when the detector of a pattern throws on the value, detectPatterns
\* still returns, and returns the matches of the other patterns, ranked.
C3_FaultIsolation ==
  (/\ call.op = "detectPatterns"
   /\ \E ref \in PatternRefs : DetectorThrows(ref, call.arg))
  => /\ ret.kind = "return"
     /\ ret.value =
          ArraySort(PATTERN_LIBRARY, InRegistryOrder(
            { ref \in PatternRefs : /\ ~DetectorThrows(ref, call.arg)
                                    /\ DetectorHolds(ref, call.arg) }))

\* C4: for a text, a pattern is in the result of detectPatterns exactly when
\* its detector holds of the text; the element is the registry entry itself,
\* so it carries the confidence of that entry.
C4_ResultIsTheMatchingRules ==
  (call.op = "detectPatterns" /\ call.arg.type = "string")
  => /\ ret.kind = "return"
     /\ \A ref \in PatternRefs :
          ref \in Range(ret.value) <=> DetectorHolds(ref, call.arg)
     /\ Range(ret.value) \subseteq PatternRefs

\* A text on which one function detector and a regular expression hold and
\* on which the other function detector does not.
C4_Witness ==
  /\ call.op = "detectPatterns" /\ call.arg.type = "string"
  /\ getPatternById("option-type-pattern") \in Range(ret.value)
  /\ getPatternById("null-check-ternary") \in Range(ret.value)
  /\ getPatternById("pure-function") \notin Range(ret.value)

\* C5: the ids of the array returned by detectPatterns are pairwise
\* distinct, however often the condition of a pattern recurs in the text.
C5_NoDuplicateIds ==
  DetectReturned =>
    \A i, j \in DOMAIN ret.value :
      i # j => PATTERN_LIBRARY[ret.value[i]].id # PATTERN_LIBRARY[ret.value[j]].id

\* A text that repeats a line on which patterns match.
C5_Witness ==
  /\ DetectReturned
  /\ call.arg.type = "string"
  /\ Len(call.arg.text) = 2
  /\ call.arg.text[1] = call.arg.text[2]
  /\ Len(ret.value) >= 2

\* C6: a detectPatterns call that repeats the argument of the detectPatterns
\* call before it has the same outcome, in whatever state the first of the
\* two calls is made.
C6_Deterministic ==
  [][(/\ call.op = "detectPatterns"
      /\ call'.op = "detectPatterns"
      /\ call'.arg = call.arg)
     => ret' = ret]_vars

\* A repeated call with matches.
C6_Witness ==
  /\ repeated
  /\ DetectReturned
  /\ ret.value # <<>>

\* C7: the first element of a non-empty result of detectPatterns is the
\* matching pattern of highest confidence, the earliest of the registry
\* among those; transformCode records the id of that pattern as completed
\* ("null-check-basic" for the explicit null-and-undefined check).
C7_TopRankedIsRecorded ==
  lastTransform.patterns # <<>> =>
    /\ RanksFirst(lastTransform.patterns[1],
                  { ref \in PatternRefs :
                      DetectorHolds(ref, StringValue(lastTransform.code)) })
    /\ lastTransform.pattern = lastTransform.patterns[1]
    /\ PATTERN_LIBRARY[lastTransform.pattern].id
         \in learningProgress.patternsCompleted
    /\ lastTransform.code = <<"if (u !== null && u !== undefined) {}">>
         => PATTERN_LIBRARY[lastTransform.pattern].id = "null-check-basic"

\* A selection whose best two matches tie, the earlier of the registry
\* coming from the later line.
C7_Witness ==
  /\ lastTransform.code = << "try { f(); } catch (e) { return null; }",
                             "if (u !== null && u !== undefined) {}" >>
  /\ Len(lastTransform.patterns) >= 2
  /\ Confidence(lastTransform.patterns[1]) = Confidence(lastTransform.patterns[2])
  /\ "null-check-basic" \in learningProgress.patternsCompleted

\* The last call broke the contract of the function called.
ContractViolated ==
  \/ call.op = "getPatternsByCategory" /\ call.arg \notin PatternCategory
  \/ call.op = "detectPatterns" /\ call.arg.type # "string"

C9_UniqueIds ==
  \A i, j \in DOMAIN lastIndex :
    i # j => PATTERN_LIBRARY[i].id # PATTERN_LIBRARY[j].id

\* A lookup that found an advanced pattern: the library holds the basic
\* patterns and the advanced patterns behind them.
C9_Witness ==
  /\ call.op = "getPatternById"
  /\ ret.value > Len(BASIC_PATTERNS)
  /\ Len(PATTERN_LIBRARY) = Len(BASIC_PATTERNS) + Len(ADVANCED_PATTERNS)

\* C10: getPatternById(r.id) returns the entry r itself, for every entry r
\* of PATTERN_LIBRARY.
C10_RoundTrip ==
  call.op = "getPatternById" =>
    \A ref \in PatternRefs :
      PATTERN_LIBRARY[ref].id = call.arg => ret.value = ref

\* The lookup of the id of the last entry.
C10_Witness ==
  /\ call.op = "getPatternById"
  /\ call.arg = PATTERN_LIBRARY[Len(PATTERN_LIBRARY)].id
  /\ ret.value = Len(PATTERN_LIBRARY)

\* C11: getPatternById never throws, and for an id that no pattern carries
\* (an id that only occurs in some relatedPatterns included) it returns
\* undefined.
C11_AbsentIdIsUndefined ==
  call.op = "getPatternById" =>
    /\ ret.kind = "return"
    /\ (\A i \in DOMAIN lastIndex : PATTERN_LIBRARY[i].id # call.arg)
         => ret.value = Undefined

\* The lookup of an id that a pattern names as related and no pattern carries.
C11_Witness ==
  /\ call.op = "getPatternById"
  /\ call.arg \in RelatedIds \ PatternIds
  /\ ret = [kind |-> "return", value |-> Undefined]

\* C12: getPatternsByCategory(c) returns the patterns of category c, all of
\* them and no other, each once and in registry order; without such a pattern
\* it returns the empty array.
C12_CategoryFilterIsExact ==
  call.op = "getPatternsByCategory" =>
    /\ ret.kind = "return"
    /\ Range(ret.value) =
         { i \in DOMAIN lastIndex : PATTERN_LIBRARY[i].category = call.arg }
    /\ \A j, k \in DOMAIN ret.value : j < k => ret.value[j] < ret.value[k]
    /\ (\A i \in DOMAIN lastIndex : PATTERN_LIBRARY[i].category # call.arg)
         => ret.value = <<>>

\* A category of several patterns, with patterns of other categories before
\* and after them in the registry.
C12_Witness ==
  /\ call.op = "getPatternsByCategory"
  /\ ret.kind = "return"
  /\ Len(ret.value) >= 2
  /\ ret.value[1] > 1
  /\ ret.value[Len(ret.value)] < Len(PATTERN_LIBRARY)

\* C13: getPatternsByDifficulty(d) returns the patterns of difficulty d, all
\* of them and no other, each once and in registry order, the empty array
\* without such a pattern; every pattern is in the result of exactly one of
\* the three levels.
C13_DifficultyFilterPartitions ==
  call.op = "getPatternsByDifficulty" =>
    /\ ret.kind = "return"
    /\ Range(ret.value) =
         { i \in DOMAIN lastIndex : PATTERN_LIBRARY[i].difficulty = call.arg }
    /\ \A j, k \in DOMAIN ret.value : j < k => ret.value[j] < ret.value[k]
    /\ (\A i \in DOMAIN lastIndex : PATTERN_LIBRARY[i].difficulty # call.arg)
         => ret.value = <<>>
    /\ \A i \in DOMAIN lastIndex :
         Cardinality({ d \in DifficultyLevel :
                         i \in Range(getPatternsByDifficulty(d)) }) = 1

\* The patterns of the highest level: some, not all.
C13_Witness ==
  /\ call = [op |-> "getPatternsByDifficulty", arg |-> "advanced"]
  /\ ret.kind = "return"
  /\ ret.value # <<>>
  /\ Len(ret.value) < Len(PATTERN_LIBRARY)

\* The sum of the counts of a record of buckets.
RECURSIVE SumOfBuckets(_)
SumOfBuckets(record) ==
  IF DOMAIN record = {} THEN 0
  ELSE LET k == CHOOSE x \in DOMAIN record : TRUE
       IN  record[k] + SumOfBuckets([x \in DOMAIN record \ {k} |-> record[x]])

\* C14: in the result of getPatternStats the category buckets are the
\* categories that occur, each counting the patterns of that category, and so
\* for the difficulty buckets: every pattern is counted in one bucket of each
\* kind, the counts of either kind add up to total, and total is
\* getPatternCount().
C14_BucketsSumToTotal ==
  call.op = "getPatternStats" =>
    /\ ret.kind = "return"
    /\ DOMAIN ret.value.byCategory =
         { PATTERN_LIBRARY[i].category : i \in DOMAIN lastIndex }
    /\ \A c \in DOMAIN ret.value.byCategory :
         ret.value.byCategory[c] =
           Cardinality({ i \in DOMAIN lastIndex : PATTERN_LIBRARY[i].category = c })
    /\ DOMAIN ret.value.byDifficulty =
         { PATTERN_LIBRARY[i].difficulty : i \in DOMAIN lastIndex }
    /\ \A d \in DOMAIN ret.value.byDifficulty :
         ret.value.byDifficulty[d] =
           Cardinality({ i \in DOMAIN lastIndex : PATTERN_LIBRARY[i].difficulty = d })
    /\ SumOfBuckets(ret.value.byCategory) = ret.value.total
    /\ SumOfBuckets(ret.value.byDifficulty) = ret.value.total
    /\ ret.value.total = getPatternCount
    /\ ret.value.total = Cardinality(DOMAIN lastIndex)

\* Statistics with several buckets of either kind, some counting more than
\* one pattern.
C14_Witness ==
  /\ call.op = "getPatternStats"
  /\ ret.kind = "return"
  /\ Cardinality(DOMAIN ret.value.byCategory) > 1
  /\ Cardinality(DOMAIN ret.value.byDifficulty) > 1
  /\ \E c \in DOMAIN ret.value.byCategory : ret.value.byCategory[c] > 1
  /\ \E d \in DOMAIN ret.value.byDifficulty : ret.value.byDifficulty[d] > 1

\* C15: whatever calls of detectPatterns, getPatternById,
\* getPatternsByCategory, getPatternsByDifficulty, getPatternCount and
\* getPatternStats were made, the array PATTERN_LIBRARY holds the patterns it
\* held after initialisation, in the same order, and the regular expression
\* of every pattern is in the state it had then (the other fields of a
\* pattern are never assigned).
C15_RegistryIsReadOnly ==
  /\ registry = [i \in DOMAIN lastIndex |-> i]
  /\ \A i \in DOMAIN lastIndex : lastIndex[i] = 0

\* A call of detectPatterns whose sort moved a later pattern of the registry
\* in front of an earlier one.
C15_Witness ==
  /\ DetectReturned
  /\ Len(ret.value) >= 2
  /\ \E j, k \in DOMAIN ret.value : j < k /\ ret.value[j] > ret.value[k]

\* C16: however the calls of detectPatterns made by the listener of the
\* active editor, by the delayed callbacks of the text changes and by the
\* command analyzeFile follow one another, each call ends as it would if it
\* were the first call after initialisation.
C16_CallsDoNotInterfere ==
  call.op = "detectPatterns" =>
    \E alone \in {detectPatterns(call.arg, [i \in DOMAIN lastIndex |-> 0])} :
      ret = [kind |-> alone.kind, value |-> alone.value]

\* A delayed callback that found patterns right after another handler had
\* called detectPatterns on another text, with a further callback waiting.
C16_Witness ==
  /\ call.op = "detectPatterns"
  /\ caller = "setTimeout"
  /\ interleaved
  /\ timers # <<>>
  /\ ret.kind = "return"
  /\ ret.value # <<>>

\* C17: detectPatterns("") returns the patterns whose detector accepts the
\* empty text and no other; no detector of PATTERN_LIBRARY accepts it, so
\* the array returned is empty.
C17_EmptyTextMatchesNothing ==
  (call.op = "detectPatterns" /\ call.arg = StringValue(<<>>)) =>
    /\ ret.kind = "return"
    /\ Range(ret.value) =
         { i \in DOMAIN lastIndex : DetectorHolds(i, StringValue(<<>>)) }
    /\ ret.value = <<>>

\* A call of detectPatterns on the empty text that does not repeat the call
\* before it.
C17_Witness ==
  /\ call = [op |-> "detectPatterns", arg |-> StringValue(<<>>)]
  /\ ret.kind = "return"
  /\ ~repeated

\* C18: the confidence of every pattern of PATTERN_LIBRARY lies between 0
\* and 1, both included (between 0 and 100 as held here).
C18_ConfidenceInUnitInterval ==
  \A i \in DOMAIN lastIndex :
    /\ PATTERN_LIBRARY[i].confidence >= 0
    /\ PATTERN_LIBRARY[i].confidence <= 100

\* A result that holds the patterns of the lowest and of the highest
\* confidence found among those that match the texts.
C18_Witness ==
  /\ DetectReturned
  /\ \E j, k \in DOMAIN ret.value :
       /\ PATTERN_LIBRARY[ret.value[j]].confidence >= 95
       /\ PATTERN_LIBRARY[ret.value[k]].confidence <= 60

\* C19: a registry that has the ids, detectors and confidences of
\* PATTERN_LIBRARY and other categories, difficulties or content gives, for
\* every value, the outcome PATTERN_LIBRARY gives: the same ids in the same
\* order.
C19_LabelsDoNotAffectMatching ==
  outcome.test = "relabelled" => outcome.second = outcome.first

\* Several patterns returned over a registry that gives every pattern
\* another category, another difficulty and another name.
C19_Witness ==
  /\ outcome.test = "relabelled"
  /\ outcome.relabelling.category # "keep"
  /\ outcome.relabelling.difficulty # "keep"
  /\ outcome.relabelling.name # "keep"
  /\ outcome.first.kind = "return"
  /\ Len(outcome.first.ids) >= 2

\* C20: of a pattern with a regular expression and a pattern with a function
\* that applies the same expression to the text, detectPatterns returns both
\* or neither, whatever the text.
C20_BothRepresentationsAgree ==
  (outcome.test = "twins" /\ outcome.second.kind = "return") =>
    \A i \in DOMAIN lastIndex :
      PATTERN_LIBRARY[i].jsPattern.type = "RegExp" =>
        (PATTERN_LIBRARY[i].id \in Range(outcome.second.ids)
           <=> FunctionTwin(PATTERN_LIBRARY[i]).id \in Range(outcome.second.ids))

\* A text on which some pattern and its function twin are returned and
\* another pattern and its twin are not.
C20_Witness ==
  /\ outcome.test = "twins"
  /\ subject.type = "string"
  /\ outcome.second.kind = "return"
  /\ \E i, j \in DOMAIN lastIndex :
       /\ PATTERN_LIBRARY[i].jsPattern.type = "RegExp"
       /\ PATTERN_LIBRARY[j].jsPattern.type = "RegExp"
       /\ PATTERN_LIBRARY[i].id \in Range(outcome.second.ids)
       /\ FunctionTwin(PATTERN_LIBRARY[i]).id \in Range(outcome.second.ids)
       /\ PATTERN_LIBRARY[j].id \notin Range(outcome.second.ids)
       /\ Len(outcome.second.ids) > Len(outcome.first.ids)

\* C21: detectPatterns called with a string returns (it never throws), and
\* by then it has invoked the detector of every pattern of the registry
\* exactly once, in registry order.
C21_EveryDetectorRunsOnce ==
  (call.op = "detectPatterns" /\ call.arg.type = "string")
    => /\ ret.kind = "return"
       /\ tried = [i \in 1..Len(PATTERN_LIBRARY) |-> i]

\* A call on a string with matches of both kinds of detector has returned.
C21_Witness ==
  /\ call.op = "detectPatterns"
  /\ call.arg.type = "string"
  /\ ret.kind = "return"
  /\ Len(tried) = Len(PATTERN_LIBRARY)
  /\ \E i, j \in Range(ret.value) :
        /\ PATTERN_LIBRARY[i].jsPattern.type = "RegExp"
        /\ PATTERN_LIBRARY[j].jsPattern.type = "function"

\* C22: the registry holds at least 50 patterns: getPatternCount() returns
\* the length of the registry, which is 50 or more.
C22_AtLeastFiftyPatterns ==
  call.op = "getPatternCount"
    => /\ ret.kind = "return"
       /\ ret.value = Cardinality(DOMAIN registry)
       /\ ret.value >= 50

\* getPatternCount() has returned the number of the basic and the advanced
\* patterns together.
C22_Witness ==
  /\ call.op = "getPatternCount"
  /\ ret.kind = "return"
  /\ ret.value = Len(BASIC_PATTERNS) + Len(ADVANCED_PATTERNS)

\* C23: change events of the active JavaScript/TypeScript document are
\* debounced.  A callback handed to setTimeout is pending for the 500 ms
\* after its change event, so two pending callbacks belong to two events
\* less than 500 ms apart, one burst; with a debounce the later event
\* replaces the pending callback, and when a callback runs (detection and
\* status-bar update) no other callback of the burst is left to run.
C23_DetectionOncePerBurst ==
  [][Len(timers') < Len(timers) => timers' = <<>>]_vars

\* C24: whenever the pattern list of a TransformationPanel is non-empty,
\* the current index is one of its positions (0 <= index < length), and
\* the webview, if any, shows a pattern of the list and never the
\* "no pattern" page; also after show() has replaced the list with a
\* shorter one.
C24_IndexWithinList ==
  (panel.created /\ Len(panel.currentPatterns) > 0)
    => /\ panel.currentPatternIndex \in 0..(Len(panel.currentPatterns) - 1)
       /\ panel.open =>
            /\ panel.html.page # "no-pattern"
            /\ panel.html.pattern # Undefined
                  => panel.html.pattern \in Range(panel.currentPatterns)

\* The last four calls of the trail, oldest first, when it has that many.
LastFour == SubSeq(trail, Len(trail) - 3, Len(trail))

\* C25: a TransformationPanel starts in the RAW view; every toggleView call
\* moves to the next view of the cycle RAW, FOLDED, GLYPHED, WYSIWYG, RAW;
\* and after four toggleView calls in a row the view is the one before the
\* first of them.
C25_ToggleCyclesThroughViews ==
  LET cycle == [v \in {"RAW", "FOLDED", "GLYPHED", "WYSIWYG"} |->
                  CASE v = "RAW"     -> "FOLDED"
                    [] v = "FOLDED"  -> "GLYPHED"
                    [] v = "GLYPHED" -> "WYSIWYG"
                    [] OTHER         -> "RAW"]
  IN  /\ panelCall.op = "none" => panel.currentView = "RAW"
      /\ (panel.created /\ panelCall.op = "show" /\ ~panelCall.before.created)
            => panel.currentView = "RAW"
      /\ panelCall.op = "toggleView"
            => panel.currentView = cycle[panelCall.before.currentView]
      /\ (Len(trail) >= 4 /\ \A k \in 1..4 : LastFour[k].op = "toggleView")
            => panel.currentView = LastFour[1].view

\* Four toggleView calls in a row that started from the GLYPHED view, with
\* a webview open.
C25_Witness ==
  /\ panel.open
  /\ Len(trail) >= 4
  /\ \A k \in 1..4 : LastFour[k].op = "toggleView"
  /\ LastFour[1].view = "GLYPHED"
  /\ panel.html.page = "GLYPHED"

\* C26: with a non-empty list of length n and an index i within it,
\* nextPattern sets the index to (i + 1) mod n and previousPattern sets it
\* to (i - 1 + n) mod n, so that each undoes the other; with an empty list
\* both leave the index and the content of the webview as they were.
C26_NextAndPreviousAreInverse ==
  LET before == panelCall.before
      n == Len(before.currentPatterns)
      i == before.currentPatternIndex
      k == Len(trail)
  IN  /\ (panelCall.op = "nextPattern" /\ n > 0 /\ i \in 0..(n - 1))
            => panel.currentPatternIndex = (i + 1) % n
      /\ (panelCall.op = "previousPattern" /\ n > 0 /\ i \in 0..(n - 1))
            => panel.currentPatternIndex = (i - 1 + n) % n
      /\ (/\ k >= 2
          /\ {trail[k - 1].op, trail[k].op} = {"nextPattern", "previousPattern"}
          /\ n > 0
          /\ trail[k - 1].index \in 0..(n - 1))
            => panel.currentPatternIndex = trail[k - 1].index
      /\ (panelCall.op \in {"nextPattern", "previousPattern"} /\ n = 0)
            => /\ panel.currentPatternIndex = i
               /\ panel.html = before.html

\* previousPattern, called at index 0 of a list of three with a webview
\* open, went round to the last pattern and nextPattern came back.
C26_Witness ==
  /\ panel.open
  /\ Len(panel.currentPatterns) = 3
  /\ Len(trail) >= 2
  /\ trail[Len(trail) - 1] =
       [op |-> "previousPattern", view |-> panel.currentView, index |-> 0]
  /\ trail[Len(trail)].op = "nextPattern"
  /\ trail[Len(trail)].index = 2
  /\ panel.currentPatternIndex = 0

\* C27: a transformSelection command that finds no active editor, an empty
\* selection or no pattern in the selection leaves the learning progress,
\* the persisted global state and the transformation panel as they were.
C27_NothingToTransformChangesNothing ==
  [][(/\ command'.name = "transformSelection"
      /\ command'.outcome \in { "No active editor", "No code selected",
                                 "No ReScript patterns detected" })
       => /\ learningProgress' = learningProgress
          /\ globalState' = globalState
          /\ panel' = panel]_vars

\* The command found no pattern in a non-empty selection, after
\* transformations that filled the progress and opened the panel.
C27_Witness ==
  /\ command = [name |-> "transformSelection",
                outcome |-> "No ReScript patterns detected"]
  /\ call.op = "detectPatterns"
  /\ call.arg.text # <<>>
  /\ ret.value = <<>>
  /\ learningProgress.totalTransformations >= 2
  /\ panel.open

\* C28: starting from fresh learning progress, patternsCompleted holds only
\* ids of patterns of PATTERN_LIBRARY and has at most totalTransformations
\* and at most getPatternStats().total elements, so the status bar never
\* shows more completed patterns than there are; and every successful
\* transformCode adds the id of the top-ranked match and nothing else, and
\* adds exactly 1 to totalTransformations.
C28_ProgressCountsTopMatches ==
  [][/\ learningProgress'.patternsCompleted \subseteq PatternIds
     /\ Cardinality(learningProgress'.patternsCompleted)
          <= learningProgress'.totalTransformations
     /\ Cardinality(learningProgress'.patternsCompleted)
          <= getPatternStats.total
     /\ statusBar'.completed <= statusBar'.total
     /\ command'.outcome = "transformed"
          => /\ \A m \in Range(ret'.value) :
                  Confidence(ret'.value[1]) >= Confidence(m)
             /\ learningProgress'.patternsCompleted =
                  learningProgress.patternsCompleted
                    \cup {PATTERN_LIBRARY[ret'.value[1]].id}
             /\ learningProgress'.totalTransformations =
                  learningProgress.totalTransformations + 1]_vars

\* Three transformations have completed two patterns: one transformation
\* repeated a top-ranked match, and the last one had several matches.
C28_Witness ==
  /\ command.outcome = "transformed"
  /\ learningProgress.totalTransformations = 3
  /\ Cardinality(learningProgress.patternsCompleted) = 2
  /\ Len(ret.value) >= 3
  /\ statusBar.completed = 2

\* C29: a TransformationPanel has at most one webview at any time.  show()
\* creates a webview only when the panel refers to none and otherwise
\* reveals the one it refers to; when the webview is disposed of the
\* reference is cleared, and the next show() creates a fresh webview;
\* toggleView, nextPattern and previousPattern called while there is no
\* webview write no content.
C29_AtMostOneWebview ==
  LET before == panelCall.before
  IN  /\ panel.webviews <= 1
      /\ panel.open <=> panel.webviews = 1
      /\ panelCall.op = "show"
            => /\ panel.open
               /\ panel.webviews = IF before.open THEN before.webviews
                                   ELSE before.webviews + 1
               /\ panel.html # NoHtml
      /\ panelCall.op \in {"dispose", "onDidDispose"}
            => /\ ~panel.open
               /\ panel.webviews = 0
      /\ (/\ panelCall.op \in {"toggleView", "nextPattern", "previousPattern"}
          /\ ~before.open)
            => /\ ~panel.open
               /\ panel.webviews = 0
               /\ panel.html = before.html

\* show() has created a webview for a panel whose earlier webview was
\* disposed of, and has written the page of a pattern to it.
C29_Witness ==
  /\ panelCall.op = "show"
  /\ panelCall.before.created
  /\ ~panelCall.before.open
  /\ panel.open
  /\ panel.webviews = 1
  /\ panel.html.pattern # Undefined

\* C30: PATTERN_LIBRARY is the 29 basic patterns followed by at least 27
\* advanced patterns, 56 or more patterns in all.
C30_DocumentedLibrarySize ==
  /\ Cardinality(DOMAIN registry) >= 56
  /\ Cardinality({ i \in DOMAIN registry : i <= Len(BASIC_PATTERNS) }) = 29
  /\ Cardinality({ i \in DOMAIN registry : i > Len(BASIC_PATTERNS) }) >= 27
  /\ \A i \in DOMAIN registry :
        PATTERN_LIBRARY[i] =
          IF i <= Len(BASIC_PATTERNS) THEN BASIC_PATTERNS[i]
          ELSE ADVANCED_PATTERNS[i - Len(BASIC_PATTERNS)]

====
